---- MODULE Spec2Model ----
(***************************************************************************)
(* The conversion engine of epiclabs-io/elastic (convert.go).              *)
(*                                                                         *)
(* A Go value held in an interface{} is a pair of its exact runtime type   *)
(* and its payload: Val(typ, val).  The nil interface has no type; it is   *)
(* the value Nil, whose type is NilType (reflect.TypeOf(nil) == nil).      *)
(* Payloads: booleans are TRUE/FALSE, integers are integers, floats are    *)
(* counted in tenths (27 is 2.7), strings are sequences of one-character   *)
(* strings, a struct {X, Y} is <<X, Y>>, a slice is the sequence of its    *)
(* elements (each a Val), a map is a function from key Vals to Vals.       *)
(***************************************************************************)
EXTENDS Integers, Sequences, FiniteSets, TLC

\* The most converters registered in one run, and in a run that converts
\* the containers.
MaxReg == 2
MaxRegC == 1
\* The most elements of a slice and entries of a map among the inputs.
MaxLen == 2
\* The most engines of a run with several engines (Default and those made
\* by New), and the most converters registered in such a run.
MaxEngines == 2
MaxRegE == 2
\* The numbers converted to a string and back: every integer up to MaxAbs
\* in magnitude (floats: in tenths), and the extremes of the 8-bit types.
MaxAbs == 12
\* The most converters registered in a run whose converters return values
\* that are converted again.
MaxRegL == 2

Val(typ, val) == [typ |-> typ, val |-> val]
NilType == "nil"
Nil == Val(NilType, 0)

\* reflect.TypeOf(source)
TypeOf(source) == source.typ

(***************************************************************************)
(* The type descriptors of the model: the built-in types the tests use,    *)
(* the tests' alias and struct types, and container and interface types.   *)
(***************************************************************************)
IntKinds == {"Int", "Int8"}
UintKinds == {"Uint8"}
FloatKinds == {"Float64"}

SliceTypes == {"[]interface {}", "[]int"}
MapTypes == {"map[string]interface {}", "map[string]int", "map[int]string"}
InterfaceTypes == {"interface {}", "fmt.Stringer", "elastic.ConverterTo"}
ScalarTypes ==
    {"bool", "int", "int8", "uint8", "float64", "string",
     "IntAlias", "FloatAlias", "StringAlias", "TestStruct", "*TestStruct"}
Types == ScalarTypes \cup SliceTypes \cup MapTypes \cup InterfaceTypes

\* reflect.Type.Kind()
Kind(t) ==
    CASE t = "bool" -> "Bool"
      [] t \in {"int", "IntAlias"} -> "Int"
      [] t = "int8" -> "Int8"
      [] t = "uint8" -> "Uint8"
      [] t \in {"float64", "FloatAlias"} -> "Float64"
      [] t \in {"string", "StringAlias"} -> "String"
      [] t = "TestStruct" -> "Struct"
      [] t = "*TestStruct" -> "Ptr"
      [] t \in SliceTypes -> "Slice"
      [] t \in MapTypes -> "Map"
      [] t \in InterfaceTypes -> "Interface"

\* reflect.Type.Elem() of a slice or map type
Elem(t) ==
    CASE t = "[]interface {}" -> "interface {}"
      [] t = "[]int" -> "int"
      [] t = "map[string]interface {}" -> "interface {}"
      [] t = "map[string]int" -> "int"
      [] t = "map[int]string" -> "string"

\* reflect.Type.Key() of a map type
Key(t) ==
    CASE t = "map[string]interface {}" -> "string"
      [] t = "map[string]int" -> "string"
      [] t = "map[int]string" -> "int"

\* int(targetType.Size())*8 of a numeric type
Bits(t) == IF Kind(t) \in {"Int8", "Uint8"} THEN 8 ELSE 64

\* reflect.Type.Implements(itype): the method sets of the tests' types.
\* *TestStruct has String() and ConvertTo(); no other type has methods.
Implements(t, itype) ==
    CASE itype = "interface {}" -> TRUE
      [] itype = "fmt.Stringer" -> t = "*TestStruct"
      [] itype = "elastic.ConverterTo" -> t = "*TestStruct"
      [] OTHER -> FALSE

\* reflect.Type.ConvertibleTo(targetType), on the model's types
ConvertibleTo(s, t) ==
    LET numeric == IntKinds \cup UintKinds \cup FloatKinds
    IN  \/ s = t
        \/ Kind(t) = "Interface" /\ Implements(s, t)
        \/ Kind(s) \in numeric /\ Kind(t) \in numeric
        \/ Kind(s) \in IntKinds \cup UintKinds /\ Kind(t) = "String"
        \/ Kind(s) = "String" /\ Kind(t) = "String"

\* The value of an integer conversion to type t: it wraps to t's width.
\* 64-bit types never wrap in the model, whose integers are far smaller.
Wrap(n, t) ==
    CASE Kind(t) = "Int8" -> ((n + 128) % 256) - 128
      [] Kind(t) = "Uint8" -> n % 256
      [] OTHER -> n

\* Truncation toward zero of a float (in tenths) to an integer.
Trunc(f) == IF f >= 0 THEN f \div 10 ELSE -((-f) \div 10)

(***************************************************************************)
(* strconv: formatting and parsing, character by character.                *)
(***************************************************************************)
Digits == <<"0", "1", "2", "3", "4", "5", "6", "7", "8", "9">>

DigitChars == {Digits[i] : i \in 1..10}

DigitOf(c) == (CHOOSE i \in 1..10 : Digits[i] = c) - 1

RECURSIVE FormatNat(_)
FormatNat(n) ==
    IF n < 10 THEN <<Digits[n + 1]>>
    ELSE Append(FormatNat(n \div 10), Digits[(n % 10) + 1])

\* strconv.FormatBool
FormatBool(b) == IF b THEN <<"t", "r", "u", "e">> ELSE <<"f", "a", "l", "s", "e">>

\* FormatInt leaving out the sign.
FormatIntAbs(i) == FormatNat(IF i < 0 THEN -i ELSE i)

\* strconv.FormatInt(i, 10)
FormatInt(i) == IF i < 0 THEN <<"-">> \o FormatNat(-i) ELSE FormatNat(i)

\* strconv.FormatUint(u, 10)
FormatUint(u) == FormatNat(u)

\* strconv.FormatFloat(f, 'g', 6, bits) of a float in tenths: the integer
\* part, then the tenths digit unless it is zero.  The model's floats are
\* below 10^5 in magnitude, where %g uses no exponent.
FormatFloat(f) ==
    LET a == IF f < 0 THEN -f ELSE f
        body == IF a % 10 = 0 THEN FormatNat(a \div 10)
                ELSE FormatNat(a \div 10) \o <<".">> \o <<Digits[(a % 10) + 1]>>
    IN  IF f < 0 THEN <<"-">> \o body ELSE body

RECURSIVE ParseNat(_)
ParseNat(s) ==
    IF Len(s) = 0 THEN 0
    ELSE ParseNat(SubSeq(s, 1, Len(s) - 1)) * 10 + DigitOf(s[Len(s)])

AllDigits(s) == Len(s) > 0 /\ \A i \in 1..Len(s) : s[i] \in DigitChars

(***************************************************************************)
(* What a call yields: (value, nil), (nil, error), or no return at all: a  *)
(* run-time panic, or the fatal stack overflow of an unbounded recursion.  *)
(***************************************************************************)
Ok(v) == [kind |-> "ok", res |-> v, err |-> "nil"]
Err(e) == [kind |-> "err", res |-> Nil, err |-> e]
Panic(e) == [kind |-> "panic", res |-> Nil, err |-> e]
Overflow == [kind |-> "overflow", res |-> Nil, err |-> "stack overflow"]

ErrExpectedPointer == "ErrExpectedPointer"
ErrIncompatibleType == "ErrIncompatibleType"
ErrNoConversionAvailable == "ErrNoConversionAvailable"

\* strconv.ParseBool
ParseBool(s) ==
    CASE s \in {<<"1">>, <<"t">>, <<"T">>, <<"T", "R", "U", "E">>,
                <<"t", "r", "u", "e">>, <<"T", "r", "u", "e">>} -> Ok(TRUE)
      [] s \in {<<"0">>, <<"f">>, <<"F">>, <<"F", "A", "L", "S", "E">>,
                <<"f", "a", "l", "s", "e">>, <<"F", "a", "l", "s", "e">>} -> Ok(FALSE)
      [] OTHER -> Err("strconv.ErrSyntax")

\* strconv.ParseUint(s, 10, bits)
ParseUint(s, bits) ==
    IF ~AllDigits(s) THEN Err("strconv.ErrSyntax")
    ELSE IF bits = 8 /\ ParseNat(s) > 255 THEN Err("strconv.ErrRange")
    ELSE Ok(ParseNat(s))

\* strconv.ParseInt(s, 10, bits)
ParseInt(s, bits) ==
    LET signed == Len(s) > 0 /\ s[1] \in {"+", "-"}
        neg == Len(s) > 0 /\ s[1] = "-"
        rest == IF signed THEN Tail(s) ELSE s
        n == IF neg THEN -ParseNat(rest) ELSE ParseNat(rest)
    IN  IF ~AllDigits(rest) THEN Err("strconv.ErrSyntax")
        ELSE IF bits = 8 /\ (n < -128 \/ n > 127) THEN Err("strconv.ErrRange")
        ELSE Ok(n)

\* strconv.ParseFloat(s, bits), on decimal numerals with at most one digit
\* after the point (the floats of the model): [+-] digits [. [digit]]
ParseFloat(s) ==
    LET signed == Len(s) > 0 /\ s[1] \in {"+", "-"}
        neg == Len(s) > 0 /\ s[1] = "-"
        rest == IF signed THEN Tail(s) ELSE s
        dots == {i \in 1..Len(rest) : rest[i] = "."}
        dot == IF dots = {} THEN Len(rest) + 1 ELSE CHOOSE i \in dots : TRUE
        ip == SubSeq(rest, 1, dot - 1)
        fp == SubSeq(rest, dot + 1, Len(rest))
        wellformed ==
            /\ Cardinality(dots) <= 1
            /\ Len(ip) + Len(fp) > 0
            /\ Len(fp) <= 1
            /\ \A i \in 1..Len(ip) : ip[i] \in DigitChars
            /\ \A i \in 1..Len(fp) : fp[i] \in DigitChars
        a == ParseNat(ip) * 10 + ParseNat(fp)
    IN  IF ~wellformed THEN Err("strconv.ErrSyntax")
        ELSE Ok(IF neg THEN -a ELSE a)


(***************************************************************************)
(* The tests' type *TestStruct: String() and ConvertTo().                  *)
(***************************************************************************)
\* The square root of n/10, in tenths, cut to the model's precision.
SqrtTenths(n) == CHOOSE r \in 0..(10 * n + 10) : r * r <= 100 * n /\ 100 * n < (r + 1) * (r + 1)

\* func (ts *TestStruct) String() string: fmt.Sprintf("(%d, %d)", ts.X, ts.Y)
String(ts) ==
    <<"(">> \o FormatInt(ts.val[1]) \o <<",", " ">> \o FormatInt(ts.val[2]) \o <<")">>

\* func (ts *TestStruct) ConvertTo(targetType reflect.Type) (interface{}, error)
ConvertTo(ts, targetType) ==
    IF Kind(targetType) = "Float64"
    THEN Ok(Val("float64", SqrtTenths(ts.val[1] * ts.val[1] + ts.val[2] * ts.val[2])))
    ELSE Err(ErrNoConversionAvailable)

(***************************************************************************)
(* ConverterFunc values: the functions a caller registers.  roundFloat is  *)
(* the tests' source converter; the others answer the same way whatever    *)
(* they are given: the sentinel, an error of their own, a value that is    *)
(* not of the target type, or the source itself.  Two more return values  *)
(* that the engine converts again: halve returns half its numeric source,  *)
(* in the source's type, until that is zero, which it declines;            *)
(* retFloatAlias returns a FloatAlias whatever it is given.                *)
(***************************************************************************)
ErrAny == "ErrAny"

ConverterFuncs == {"decline", "fail", "retInt", "retSource", "roundFloat"}

LoopFuncs == {"decline", "retInt", "retSource", "halve", "retFloatAlias"}

\* converter(source, targetType)
Apply(f, source, targetType) ==
    CASE f = "decline" -> Err(ErrNoConversionAvailable)
      [] f = "fail" -> Err(ErrAny)
      [] f = "retInt" -> Ok(Val("int", 7))
      [] f = "retSource" -> Ok(source)
      [] f = "retFloatAlias" -> Ok(Val("FloatAlias", 27))
      [] f = "halve" ->
            IF source = Nil \/ Kind(TypeOf(source)) \notin IntKinds \cup UintKinds \cup FloatKinds
            THEN Err(ErrNoConversionAvailable)
            ELSE IF source.val <= 0 THEN Err(ErrNoConversionAvailable)
            ELSE Ok(Val(TypeOf(source), source.val \div 2))
      [] f = "roundFloat" ->
            IF Kind(targetType) # "Int" THEN Err(ErrNoConversionAvailable)
            ELSE IF TypeOf(source) # "FloatAlias"
                 THEN Panic("interface conversion: source.(FloatAlias)")
            ELSE LET f0 == source.val
                     d == f0 - 10 * Trunc(f0)
                 IN  IF d > 5 THEN Ok(Val("int", Trunc(f0) + 1))
                     ELSE Ok(Val("int", Trunc(f0)))

(***************************************************************************)
(* ConverterEngine: three registries, Go maps from a type descriptor to    *)
(* the list of converters registered under it.  A key that was never       *)
(* registered is absent, and reading it gives the empty list.              *)
(***************************************************************************)
\* New()
New == [sourceConverters |-> <<>>, targetConverters |-> <<>>, interfaceConverters |-> <<>>]

\* m[key] of a Go map of slices
Lookup(m, key) == IF key \in DOMAIN m THEN m[key] ELSE <<>>

\* Registered putting the converter at the head of the list.
RegisteredFirst(m, key, f) ==
    [k \in DOMAIN m \cup {key} |-> IF k = key THEN <<f>> \o Lookup(m, key) ELSE m[k]]

\* cf := m[key]; cf = append(cf, f); m[key] = cf
Registered(m, key, f) ==
    [k \in DOMAIN m \cup {key} |-> IF k = key THEN Append(Lookup(m, key), f) ELSE m[k]]

\* The orders in which a range loop may visit the keys of a Go map.
Orders(keys) ==
    {p \in [1..Cardinality(keys) -> keys] : \A i, j \in DOMAIN p : p[i] = p[j] => i = j}

RECURSIVE Flatten(_)
Flatten(ss) == IF Len(ss) = 0 THEN <<>> ELSE Head(ss) \o Flatten(Tail(ss))

\* One line of the record of a call: a strategy the engine consulted at a
\* recursion depth (a custom one and the converter called, or the built-in
\* rule taken), and what it answered.
Consulted(depth, strat, f, r) == [depth |-> depth, strat |-> strat, f |-> f, r |-> r]

\* Chain with the target converters consulted before the source's ConvertTo.
ChainTargetFirst(ce, source, targetType, p) ==
    LET sourceType == TypeOf(source)
        ofList(strat, key, l) == [i \in 1..Len(l) |-> [strat |-> strat, key |-> key, f |-> l[i]]]
        sc == ofList("source", sourceType, Lookup(ce.sourceConverters, sourceType))
        ct == IF sourceType # NilType /\ Implements(sourceType, "elastic.ConverterTo")
              THEN <<[strat |-> "ConvertTo", key |-> sourceType, f |-> "ConvertTo"]>>
              ELSE <<>>
        tc == ofList("target", targetType, Lookup(ce.targetConverters, targetType))
    IN  sc \o tc \o ct

\* The custom strategies Convert consults for (source, targetType), in the
\* order of the code, the interface converters' keys visited in order p.
Chain(ce, source, targetType, p) ==
    LET sourceType == TypeOf(source)
        ofList(strat, key, l) == [i \in 1..Len(l) |-> [strat |-> strat, key |-> key, f |-> l[i]]]
        sc == ofList("source", sourceType, Lookup(ce.sourceConverters, sourceType))
        ct == IF sourceType # NilType /\ Implements(sourceType, "elastic.ConverterTo")
              THEN <<[strat |-> "ConvertTo", key |-> sourceType, f |-> "ConvertTo"]>>
              ELSE <<>>
        tc == ofList("target", targetType, Lookup(ce.targetConverters, targetType))
        ic == Flatten([i \in 1..Len(p) |->
                 IF sourceType = NilType
                 THEN <<[strat |-> "interface", key |-> p[i], f |-> "nil.Implements"]>>
                 ELSE IF Implements(sourceType, p[i])
                 THEN ofList("interface", p[i], ce.interfaceConverters[p[i]])
                 ELSE <<>>])
    IN  sc \o ct \o tc \o ic

\* The call of one custom strategy
Invoke(s, source, targetType) ==
    CASE s.strat = "ConvertTo" -> ConvertTo(source, targetType)
      [] s.f = "nil.Implements" -> Panic("nil pointer dereference")
      [] OTHER -> Apply(s.f, source, targetType)

Answer(r) ==
    CASE r.kind = "ok" -> "value"
      [] r.kind = "err" /\ r.err = ErrNoConversionAvailable -> "decline"
      [] r.kind = "err" -> "error"
      [] OTHER -> "panic"

\* reflect.Value.Convert(targetType).Interface(), where ConvertibleTo holds.
\* A value converted to an interface type keeps its own runtime type.
ReflectConvert(source, targetType) ==
    LET s == Kind(TypeOf(source))
        t == Kind(targetType)
        ints == IntKinds \cup UintKinds
    IN  CASE t = "Interface" -> source
          [] t \in ints /\ s \in ints -> Val(targetType, Wrap(source.val, targetType))
          [] t \in ints /\ s \in FloatKinds -> Val(targetType, Wrap(Trunc(source.val), targetType))
          [] t \in FloatKinds /\ s \in ints -> Val(targetType, 10 * source.val)
          [] t = "String" /\ s \in ints -> Val(targetType, <<"rune", FormatInt(source.val)>>)
          [] OTHER -> Val(targetType, source.val)

\* kind2Exact without its conversion: the value is returned as it came.
kind2ExactAsIs(source, targetType) == source

\* kind2Exact converts a type of the same kind
kind2Exact(source, targetType) == ReflectConvert(source, targetType)

\* What one path of a call leaves: its outcome and the strategies consulted.
Done(out, log) == [out |-> out, log |-> log]

\* The built-in rule of Convert that applies to a non-nil source when no
\* custom strategy answered, in the order of the code.
Rule(sourceType, targetType) ==
    LET s == Kind(sourceType)
        t == Kind(targetType)
        valueKinds == {"Bool"} \cup IntKinds \cup UintKinds \cup FloatKinds
    IN  CASE t = "String" /\ Implements(sourceType, "fmt.Stringer") -> "Stringer"
          [] t = "String" /\ s \in valueKinds -> "format"
          [] s = "String" /\ t \in valueKinds -> "parse"
          [] s = "Slice" /\ t = "Slice" -> "slice"
          [] s = "Map" /\ t = "Map" -> "map"
          [] ConvertibleTo(sourceType, targetType) -> "reflect"
          [] OTHER -> "incompatible"

\* Conversion to string of the typical value types
Format(source, targetType) ==
    LET s == Kind(TypeOf(source))
    IN  CASE s = "Bool" -> kind2Exact(Val("string", FormatBool(source.val)), targetType)
          [] s \in IntKinds -> kind2Exact(Val("string", FormatInt(source.val)), targetType)
          [] s \in UintKinds -> kind2Exact(Val("string", FormatUint(source.val)), targetType)
          [] s \in FloatKinds -> kind2Exact(Val("string", FormatFloat(source.val)), targetType)

\* Parsing of the typical value types from a string
Parse(source, targetType) ==
    LET t == Kind(targetType)
        from(r, typ) == IF r.kind = "ok" THEN Ok(kind2Exact(Val(typ, r.res), targetType)) ELSE r
    IN  CASE t = "Bool" -> from(ParseBool(source.val), "bool")
          [] t \in IntKinds -> from(ParseInt(source.val, Bits(targetType)), "int")
          [] t \in UintKinds -> from(ParseUint(source.val, Bits(targetType)), "int")
          [] t \in FloatKinds -> from(ParseFloat(source.val), "float64")

RECURSIVE Convert(_, _, _, _, _)
RECURSIVE Run(_, _, _, _, _, _, _)
RECURSIVE sliceLoop(_, _, _, _, _, _, _)
RECURSIVE mapLoop(_, _, _, _, _, _, _, _)

\* The loop of convertSlice going on to the next item when one fails.
sliceLoopSkipsFailures(ce, S, targetType, i, T, depth, seen) ==
    IF i > Len(S) THEN {Done(Ok(Val(targetType, T)), <<>>)}
    ELSE UNION {
            {Done(r.out, item.log \o r.log) :
                r \in sliceLoop(ce, S, targetType, i + 1,
                                IF item.out.kind = "ok" THEN Append(T, item.out.res) ELSE T,
                                depth, seen)}
            : item \in Convert(ce, S[i], Elem(targetType), depth + 1, seen)}

\* convertSlice attempts to convert a slice to another type of slice
convertSlice(ce, source, targetType, depth, seen) ==
    sliceLoop(ce, source.val, targetType, 1, <<>>, depth, seen)

\* The loop of convertSlice from index i on, T holding the items so far.
sliceLoop(ce, S, targetType, i, T, depth, seen) ==
    IF i > Len(S) THEN {Done(Ok(Val(targetType, T)), <<>>)}
    ELSE UNION {
            IF item.out.kind # "ok" THEN {item}
            ELSE {Done(r.out, item.log \o r.log) :
                    r \in sliceLoop(ce, S, targetType, i + 1, Append(T, item.out.res), depth, seen)}
            : item \in Convert(ce, S[i], Elem(targetType), depth + 1, seen)}

\* T.SetMapIndex(key, value)
SetMapIndex(T, key, value) ==
    [k \in DOMAIN T \cup {key} |-> IF k = key THEN value ELSE T[k]]

\* The loop of convertMap leaving out an entry whose key does not convert.
mapLoopSkipsKeys(ce, S, targetType, p, i, T, depth, seen) ==
    IF i > Len(p) THEN {Done(Ok(Val(targetType, T)), <<>>)}
    ELSE UNION {
            IF value.out.kind # "ok" THEN {value}
            ELSE UNION {
                    {Done(r.out, value.log \o key.log \o r.log) :
                        r \in mapLoop(ce, S, targetType, p, i + 1,
                                      IF key.out.kind = "ok"
                                      THEN SetMapIndex(T, key.out.res, value.out.res) ELSE T,
                                      depth, seen)}
                    : key \in Convert(ce, p[i], Key(targetType), depth + 1, seen)}
            : value \in Convert(ce, S[p[i]], Elem(targetType), depth + 1, seen)}

\* convertMap attempts to convert the source map to another type of map:
\* the range loop visits the entries in any order.
convertMap(ce, source, targetType, depth, seen) ==
    UNION {mapLoop(ce, source.val, targetType, p, 1, <<>>, depth, seen) :
            p \in Orders(DOMAIN source.val)}

\* The loop of convertMap over the keys p from index i on, T being the map
\* built so far: the value is converted first, then the key.
mapLoop(ce, S, targetType, p, i, T, depth, seen) ==
    IF i > Len(p) THEN {Done(Ok(Val(targetType, T)), <<>>)}
    ELSE UNION {
            IF value.out.kind # "ok" THEN {value}
            ELSE UNION {
                    IF key.out.kind # "ok" THEN {Done(key.out, value.log \o key.log)}
                    ELSE {Done(r.out, value.log \o key.log \o r.log) :
                            r \in mapLoop(ce, S, targetType, p, i + 1,
                                          SetMapIndex(T, key.out.res, value.out.res), depth, seen)}
                    : key \in Convert(ce, p[i], Key(targetType), depth + 1, seen)}
            : value \in Convert(ce, S[p[i]], Elem(targetType), depth + 1, seen)}

\* The built-in rules of Convert, reached when every custom strategy
\* declined.  A nil source has a nil sourceType: sourceType.Kind() panics.
Builtin(ce, source, targetType, depth, seen) ==
    LET sourceType == TypeOf(source)
        rule == Rule(sourceType, targetType)
        used == <<Consulted(depth, "builtin", rule, Ok(Nil))>>
    IN  IF sourceType = NilType
        THEN {Done(Panic("nil pointer dereference"), <<>>)}
        ELSE CASE rule = "Stringer" ->
                    {Done(Ok(kind2Exact(Val("string", String(source)), targetType)), used)}
               [] rule = "format" -> {Done(Ok(Format(source, targetType)), used)}
               [] rule = "parse" -> {Done(Parse(source, targetType), used)}
               [] rule = "slice" ->
                    {Done(r.out, used \o r.log) :
                        r \in convertSlice(ce, source, targetType, depth, seen)}
               [] rule = "map" ->
                    {Done(r.out, used \o r.log) :
                        r \in convertMap(ce, source, targetType, depth, seen)}
               [] rule = "reflect" -> {Done(Ok(ReflectConvert(source, targetType)), used)}
               [] OTHER -> {Done(Err(ErrIncompatibleType), used)}

\* Run returning a custom strategy's value as it is, without converting it.
RunNoRedispatch(ce, source, targetType, depth, seen, chain, i) ==
    IF i > Len(chain) THEN Builtin(ce, source, targetType, depth, seen)
    ELSE LET r == Invoke(chain[i], source, targetType)
             line == <<Consulted(depth, chain[i].strat, chain[i].f, r)>>
         IN  CASE Answer(r) = "decline" ->
                    {Done(o.out, line \o o.log) :
                        o \in Run(ce, source, targetType, depth, seen, chain, i + 1)}
               [] OTHER -> {Done(r, line)}

\* Run taking any error of a custom strategy for the sentinel.
RunPastErrors(ce, source, targetType, depth, seen, chain, i) ==
    IF i > Len(chain) THEN Builtin(ce, source, targetType, depth, seen)
    ELSE LET r == Invoke(chain[i], source, targetType)
             line == <<Consulted(depth, chain[i].strat, chain[i].f, r)>>
         IN  CASE Answer(r) = "value" ->
                    {Done(o.out, line \o o.log) :
                        o \in Convert(ce, r.res, targetType, depth + 1, seen)}
               [] Answer(r) \in {"decline", "error"} ->
                    {Done(o.out, line \o o.log) :
                        o \in Run(ce, source, targetType, depth, seen, chain, i + 1)}
               [] OTHER -> {Done(r, line)}

\* Convert from the i-th custom strategy of chain on.
Run(ce, source, targetType, depth, seen, chain, i) ==
    IF i > Len(chain) THEN Builtin(ce, source, targetType, depth, seen)
    ELSE LET r == Invoke(chain[i], source, targetType)
             line == <<Consulted(depth, chain[i].strat, chain[i].f, r)>>
         IN  CASE Answer(r) = "value" ->
                    {Done(o.out, line \o o.log) :
                        o \in Convert(ce, r.res, targetType, depth + 1, seen)}
               [] Answer(r) = "decline" ->
                    {Done(o.out, line \o o.log) :
                        o \in Run(ce, source, targetType, depth, seen, chain, i + 1)}
               [] OTHER -> {Done(r, line)}

\* Convert without the test for equal types.
ConvertNoIdentity(ce, source, targetType, depth, seen) ==
    LET frame == <<source, targetType>>
        again == <<source, targetType, "again">>
        runs(within) ==
            UNION {Run(ce, source, targetType, depth, within,
                       Chain(ce, source, targetType, p), 1) :
                     p \in Orders(DOMAIN ce.interfaceConverters)}
    IN  IF again \in seen THEN {}
        ELSE IF frame \in seen THEN {Done(Overflow, <<>>)} \cup runs(seen \cup {again})
        ELSE runs(seen \cup {frame})

\* Convert with a guard: a call nested in a call of the same source and
\* target fails with ErrIncompatibleType.
ConvertGuarded(ce, source, targetType, depth, seen) ==
    IF TypeOf(source) = targetType THEN {Done(Ok(source), <<>>)}
    ELSE IF <<source, targetType>> \in seen THEN {Done(Err(ErrIncompatibleType), <<>>)}
    ELSE UNION {Run(ce, source, targetType, depth, seen \cup {<<source, targetType>>},
                    Chain(ce, source, targetType, p), 1) :
                  p \in Orders(DOMAIN ce.interfaceConverters)}

\* Convert attempts to convert the source value to the given target type.
\* The set of what the call may do: the order of a range over a Go map is
\* not determined.  seen holds the calls this one is nested in.  There is
\* no guard against a call nested in a call of the same source and target:
\* what led from the one to the other can repeat without end, until the
\* stack overflows; or the range over the interface converters takes
\* another order this time, and the call ends as one that is not nested in
\* itself again (a third visit adds nothing to what the second may do).
Convert(ce, source, targetType, depth, seen) ==
    LET frame == <<source, targetType>>
        again == <<source, targetType, "again">>
        runs(within) ==
            UNION {Run(ce, source, targetType, depth, within,
                       Chain(ce, source, targetType, p), 1) :
                     p \in Orders(DOMAIN ce.interfaceConverters)}
    IN  IF TypeOf(source) = targetType THEN {Done(Ok(source), <<>>)}
        ELSE IF again \in seen THEN {}
        ELSE IF frame \in seen THEN {Done(Overflow, <<>>)} \cup runs(seen \cup {again})
        ELSE runs(seen \cup {frame})

\* Set writing what Convert returned before looking at its error.
SetWritesFirst(ce, target, source) ==
    IF ~target.ptr THEN {[out |-> Err(ErrExpectedPointer), log |-> <<>>, at |-> target.at]}
    ELSE {[out |-> IF c.out.kind = "ok" THEN Ok(Nil) ELSE c.out,
           log |-> c.log,
           at |-> c.out.res] :
            c \in Convert(ce, source, target.elem, 0, {})}

\* Set sets the given target pointer to the source value: what it returns
\* and what the pointed location holds afterwards.  target is a pointer
\* [ptr |-> TRUE, elem |-> the location's type, at |-> its value] or any
\* other value, [ptr |-> FALSE].
Set(ce, target, source) ==
    IF ~target.ptr THEN {[out |-> Err(ErrExpectedPointer), log |-> <<>>, at |-> target.at]}
    ELSE {[out |-> IF c.out.kind = "ok" THEN Ok(Nil) ELSE c.out,
           log |-> c.log,
           at |-> IF c.out.kind = "ok" THEN c.out.res ELSE target.at] :
            c \in Convert(ce, source, target.elem, 0, {})}

(***************************************************************************)
(* The inputs of the calls.                                                *)
(***************************************************************************)
StrV(s) == Val("string", s)
IntV(n) == Val("int", n)

ScalarSources ==
    {Val("bool", TRUE), IntV(3), Val("int8", -1), Val("uint8", 200),
     Val("float64", 27), Val("FloatAlias", 27), Val("IntAlias", 3),
     StrV(<<"1">>), StrV(<<"x">>), StrV(<<"3", "0", "0">>), Val("StringAlias", <<"1">>),
     Val("TestStruct", <<1, 2>>), Val("*TestStruct", <<3, 4>>), Nil}

\* The sequences over a set of at most n elements
SeqsUpTo(S, n) == UNION {[1..k -> S] : k \in 0..n}

SliceElems == {IntV(1), StrV(<<"2">>), StrV(<<"x">>), Nil}
SliceSources ==
    {Val("[]interface {}", s) : s \in SeqsUpTo(SliceElems, MaxLen)}
        \cup {Val("[]int", s) : s \in SeqsUpTo({IntV(1), IntV(300)}, MaxLen)}

MapKeys == {StrV(<<"1">>), StrV(<<"0", "1">>), StrV(<<"x">>)}
MapElems == {StrV(<<"2">>), StrV(<<"x">>), Nil}
MapSources ==
    {Val("map[string]interface {}", m) :
        m \in UNION {[K -> MapElems] : K \in {K \in SUBSET MapKeys : Cardinality(K) <= MaxLen}}}

ContainerSources == SliceSources \cup MapSources

\* The scalars, and a slice and a map of one element.
Sources ==
    ScalarSources
        \cup {Val("[]interface {}", <<StrV(<<"2">>)>>),
              Val("map[string]interface {}", (StrV(<<"1">>) :> StrV(<<"2">>)))}

\* The targets of Set: pointers to a location of a type, holding a value,
\* and one value that is no pointer.
Pointer(elem, at) == [ptr |-> TRUE, elem |-> elem, at |-> at]
SetTargets ==
    {Pointer("int", IntV(9)),
     Pointer("StringAlias", Val("StringAlias", <<"o", "l", "d">>)),
     Pointer("[]int", Val("[]int", <<IntV(9)>>)),
     Pointer("map[int]string", Val("map[int]string", (IntV(9) :> StrV(<<"o", "l", "d">>)))),
     [ptr |-> FALSE, elem |-> NilType, at |-> IntV(3)]}

SourceKeys == {"FloatAlias", "*TestStruct"}
TargetKeys == {"int"}
InterfaceKeys == {"interface {}", "fmt.Stringer", "int"}

(***************************************************************************)
(* The state: the engines (engines[1] is Default) and the last call made.  *)
(***************************************************************************)
VARIABLES engines, call

vars == <<engines, call>>

NoCall ==
    [op |-> "none", ce |-> 0, source |-> Nil, target |-> NilType,
     out |-> Ok(Nil), log |-> <<>>, before |-> Nil, at |-> Nil]

Init ==
    /\ engines = <<New>>
    /\ call = NoCall

\* The converters registered in an engine
Count(m) == LET RECURSIVE sum(_)
                sum(K) == IF K = {} THEN 0
                          ELSE LET k == CHOOSE k \in K : TRUE
                               IN  Len(m[k]) + sum(K \ {k})
            IN  sum(DOMAIN m)

Registrations ==
    LET RECURSIVE all(_)
        all(i) == IF i = 0 THEN 0
                  ELSE Count(engines[i].sourceConverters) + Count(engines[i].targetConverters)
                        + Count(engines[i].interfaceConverters) + all(i - 1)
    IN  all(Len(engines))

\* The engine is used by one caller, one call at a time: a call is made
\* when none is in progress.
Idle == call.op = "none"

Called(op, e, source, target, r, before, at) ==
    [op |-> op, ce |-> e, source |-> source, target |-> target,
     out |-> r.out, log |-> r.log, before |-> before, at |-> at]

AddSourceConverter(e, sourceType, f) ==
    /\ Idle
    /\ engines' = [engines EXCEPT ![e].sourceConverters = Registered(@, sourceType, f)]
    /\ UNCHANGED call

AddTargetConverter(e, targetType, f) ==
    /\ Idle
    /\ engines' = [engines EXCEPT ![e].targetConverters = Registered(@, targetType, f)]
    /\ UNCHANGED call

AddInterfaceConverter(e, interfaceType, f) ==
    /\ Idle
    /\ IF Kind(interfaceType) # "Interface"
       THEN /\ call' = Called("AddInterfaceConverter", e, Nil, interfaceType,
                              Done(Panic("type must be an interface"), <<>>), Nil, Nil)
            /\ UNCHANGED engines
       ELSE /\ engines' = [engines EXCEPT ![e].interfaceConverters = Registered(@, interfaceType, f)]
            /\ UNCHANGED call

ConvertCall(e, source, targetType) ==
    /\ Idle
    /\ \E r \in Convert(engines[e], source, targetType, 0, {}) :
            call' = Called("Convert", e, source, targetType, r, Nil, Nil)
    /\ UNCHANGED engines

SetCall(e, target, source) ==
    /\ Idle
    /\ \E r \in Set(engines[e], target, source) :
            call' = Called("Set", e, source, IF target.ptr THEN target.elem ELSE NilType,
                           r, target, r.at)
    /\ UNCHANGED engines

\* The caller takes what the call returned, or recovers from its panic.
\* A stack overflow is fatal: nothing follows it.
Return ==
    /\ ~Idle /\ call.out.kind # "overflow"
    /\ call' = NoCall
    /\ UNCHANGED engines

\* The registration calls, while fewer than max converters are registered.
Add(max) ==
    /\ Registrations < max
    /\ \E e \in 1..Len(engines), f \in ConverterFuncs :
        \/ \E t \in SourceKeys : AddSourceConverter(e, t, f)
        \/ \E t \in TargetKeys : AddTargetConverter(e, t, f)
        \/ \E t \in InterfaceKeys : AddInterfaceConverter(e, t, f)

\* The conversion calls on the sources S.
Use(S) ==
    \E e \in 1..Len(engines), source \in S :
        \/ \E t \in Types : ConvertCall(e, source, t)
        \/ \E target \in SetTargets : SetCall(e, target, source)

Next == Add(MaxReg) \/ Use(Sources) \/ Return

Spec == Init /\ [][Next]_vars

\* The same engine converting the slices and maps of up to MaxLen entries.
NextContainers == Add(MaxRegC) \/ Use(ContainerSources) \/ Return

SpecContainers == Init /\ [][NextContainers]_vars

\* A caller makes an engine of its own: ce := New()
NewEngine ==
    /\ Idle
    /\ Len(engines) < MaxEngines
    /\ engines' = Append(engines, New)
    /\ UNCHANGED call

\* The sources converted in the runs with several engines.
EngineSources == {Val("FloatAlias", 27), Val("*TestStruct", <<3, 4>>), StrV(<<"1">>)}

\* Default and the engines made by New, registered in and used in turn.
NextEngines == NewEngine \/ Add(MaxRegE) \/ Use(EngineSources) \/ Return

SpecEngines == Init /\ [][NextEngines]_vars

\* The registration calls of the converters whose values are converted
\* again, while fewer than MaxRegL converters are registered.
AddLoops ==
    /\ Registrations < MaxRegL
    /\ \E e \in 1..Len(engines), f \in LoopFuncs :
        \/ \E t \in SourceKeys : AddSourceConverter(e, t, f)
        \/ \E t \in TargetKeys : AddTargetConverter(e, t, f)
        \/ \E t \in InterfaceKeys : AddInterfaceConverter(e, t, f)

\* Sources of every nesting depth up to two.
LoopSources ==
    {IntV(3), Val("FloatAlias", 27), Val("*TestStruct", <<3, 4>>), Nil,
     Val("[]interface {}", <<StrV(<<"2">>), IntV(3)>>),
     Val("map[string]interface {}", (StrV(<<"1">>) :> Val("FloatAlias", 27))),
     Val("[]interface {}", <<Val("[]interface {}", <<IntV(3)>>)>>)}

\* The engine with converters that return values to convert again.
NextLoops == AddLoops \/ Use(LoopSources) \/ Return

SpecLoops == Init /\ [][NextLoops]_vars

\* The booleans and numbers converted to a string and back.
RoundTripSources ==
    {Val("bool", b) : b \in BOOLEAN}
        \cup {Val(t, n) : t \in {"int", "IntAlias"}, n \in (-MaxAbs..MaxAbs) \cup {-300, 300}}
        \cup {Val("int8", n) : n \in (-MaxAbs..MaxAbs) \cup {-128, 127}}
        \cup {Val("uint8", n) : n \in (0..MaxAbs) \cup {200, 255}}
        \cup {Val(t, f) : t \in {"float64", "FloatAlias"}, f \in (-MaxAbs..MaxAbs) \cup {-92, 1942}}

\* The engine converting the booleans and numbers.
NextRoundTrip == Add(MaxRegC) \/ Use(RoundTripSources) \/ Return

SpecRoundTrip == Init /\ [][NextRoundTrip]_vars

(***************************************************************************)
(* The claims.                                                             *)
(***************************************************************************)
\* The engine of the last call, what it consulted itself (not in a nested
\* call), and the custom strategies among that.
CE == engines[call.ce]
Top == SelectSeq(call.log, LAMBDA l : l.depth = 0)
TopCustom == SelectSeq(Top, LAMBDA l : l.strat # "builtin")
Converted == call.op = "Convert"
Differs == TypeOf(call.source) # call.target
Registry(e) == <<e.sourceConverters, e.targetConverters, e.interfaceConverters>>

\* C1 as stated: whenever Convert returns without error, the runtime type
\* of the returned value is exactly targetType, whatever the target type.
C1_ExactTargetType ==
    Converted /\ call.out.kind = "ok" => TypeOf(call.out.res) = call.target

\* C1, amended: whenever Convert returns without error, the runtime type of
\* the returned value is exactly targetType when targetType is not an
\* interface type, and a type that implements targetType when it is.
C1_ExactUnlessInterface ==
    Converted /\ call.out.kind = "ok" =>
        IF Kind(call.target) = "Interface"
        THEN TypeOf(call.out.res) # NilType /\ Implements(TypeOf(call.out.res), call.target)
        ELSE TypeOf(call.out.res) = call.target

\* A custom converter's int became the IntAlias asked for.
C1_Witness ==
    /\ Converted /\ call.out = Ok(Val("IntAlias", 3))
    /\ call.source = Val("FloatAlias", 27)
    /\ Len(TopCustom) > 0

\* C3: if a custom strategy (at any depth of the call) returns an error
\* other than ErrNoConversionAvailable, nothing is consulted after it and
\* Convert returns that same error.
C3_CustomErrorAborts ==
    Converted =>
        \A i \in DOMAIN call.log :
            call.log[i].strat # "builtin" /\ Answer(call.log[i].r) = "error" =>
                i = Len(call.log) /\ call.out = call.log[i].r

\* A converter failed although the next one of its list returns a value.
C3_Witness ==
    /\ Converted /\ call.out = Err(ErrAny)
    /\ \E t \in DOMAIN CE.targetConverters : CE.targetConverters[t] = <<"fail", "retInt">>
    /\ call.target = "int"

\* C4: Convert never returns ErrNoConversionAvailable, and returns
\* ErrIncompatibleType when every custom strategy declined and no built-in
\* rule applies to the source and the target.
C4_SentinelNeverReturned ==
    Converted =>
        /\ ~(call.out.kind = "err" /\ call.out.err = ErrNoConversionAvailable)
        /\ (/\ Differs
            /\ \A i \in DOMAIN TopCustom : Answer(TopCustom[i].r) = "decline"
            /\ \/ call.source = Nil
               \/ Rule(TypeOf(call.source), call.target) = "incompatible")
           => call.out = Err(ErrIncompatibleType)

\* C6: Convert(v, T) of a value v of type T returns v and consults nothing.
C6_Identity ==
    Converted /\ ~Differs => call.out = Ok(call.source) /\ call.log = <<>>

\* A value converted to its own type, with converters that apply to it.
C6_Witness ==
    /\ Converted /\ call.source = Val("FloatAlias", 27) /\ call.target = "FloatAlias"
    /\ Lookup(CE.sourceConverters, "FloatAlias") # <<>>
    /\ Lookup(CE.interfaceConverters, "interface {}") # <<>>

Rank(strat) ==
    CASE strat = "source" -> 1
      [] strat = "ConvertTo" -> 2
      [] strat = "target" -> 3
      [] strat = "interface" -> 4
      [] strat = "builtin" -> 5

\* The converters of one strategy that the call consulted itself, in order.
Asked(strat) ==
    LET sel == SelectSeq(Top, LAMBDA l : l.strat = strat)
    IN  [i \in 1..Len(sel) |-> sel[i].f]

IsPrefix(a, b) == Len(a) <= Len(b) /\ a = SubSeq(b, 1, Len(a))

\* The interface converters that apply to a type, their keys in order p.
Applicable(e, sourceType, p) ==
    Flatten([i \in 1..Len(p) |->
        IF Implements(sourceType, p[i]) THEN e.interfaceConverters[p[i]] ELSE <<>>])

\* C2: when the source's type differs from the target, Convert consults the
\* source converters of the source's type in registration order, then the
\* source's ConvertTo, then the target converters of the target in
\* registration order, then the interface converters, then the built-in
\* rules, skipping none; the first strategy that does not answer
\* ErrNoConversionAvailable is the last one consulted, and its error is
\* what Convert returns.
C2_StrategyOrder ==
    Converted /\ Differs =>
        LET sourceType == TypeOf(call.source)
            src == Lookup(CE.sourceConverters, sourceType)
            tgt == Lookup(CE.targetConverters, call.target)
            own == sourceType # NilType /\ Implements(sourceType, "elastic.ConverterTo")
        IN  /\ \A i, j \in DOMAIN Top :
                    i < j => Rank(Top[i].strat) <= Rank(Top[j].strat)
            /\ IsPrefix(Asked("source"), src)
            /\ IsPrefix(Asked("target"), tgt)
            /\ Len(Asked("ConvertTo")) <= (IF own THEN 1 ELSE 0)
            /\ sourceType # NilType =>
                    \E p \in Orders(DOMAIN CE.interfaceConverters) :
                        IsPrefix(Asked("interface"), Applicable(CE, sourceType, p))
            /\ \A i \in DOMAIN Top :
                    /\ Rank(Top[i].strat) > 1 => Asked("source") = src
                    /\ Rank(Top[i].strat) > 2 => Len(Asked("ConvertTo")) = (IF own THEN 1 ELSE 0)
                    /\ Rank(Top[i].strat) > 3 => Asked("target") = tgt
                    /\ Rank(Top[i].strat) > 4 =>
                            \E p \in Orders(DOMAIN CE.interfaceConverters) :
                                Asked("interface") = Applicable(CE, sourceType, p)
                    /\ Top[i].strat # "builtin" /\ Answer(Top[i].r) # "decline" =>
                            i = Len(Top)
                    /\ Top[i].strat # "builtin" /\ Answer(Top[i].r) = "error" =>
                            call.out = Top[i].r
            /\ (call.source = Val("FloatAlias", 27) /\ call.target = "int"
                    /\ src = <<"roundFloat">>)
                => call.out = Ok(IntV(3))
            /\ (sourceType = "*TestStruct" /\ Kind(call.target) = "Float64" /\ src = <<>>)
                => /\ Len(Top) = 1 /\ Top[1].strat = "ConvertTo"
                   /\ Answer(Top[1].r) = "value"
                   /\ call.target = "float64" => call.out = Top[1].r

\* The source's ConvertTo declined, a target converter was asked next and
\* answered, and no interface converter or built-in rule was consulted.
C2_Witness ==
    /\ Converted /\ TypeOf(call.source) = "*TestStruct" /\ call.target = "int"
    /\ Len(Top) = 2
    /\ Top[1].strat = "ConvertTo" /\ Answer(Top[1].r) = "decline"
    /\ Top[2].strat = "target" /\ Answer(Top[2].r) = "value"
    /\ Lookup(CE.interfaceConverters, "interface {}") # <<>>

\* C5: Set on a target that is no pointer returns ErrExpectedPointer,
\* calls nothing and writes nothing; on a pointer to a location of type T
\* it does what Convert(source, T) does, returns nil and stores the result
\* when Convert succeeds, and otherwise ends as Convert does and leaves
\* the location as it was.
C5_Set ==
    call.op = "Set" =>
        IF ~call.before.ptr
        THEN /\ call.out = Err(ErrExpectedPointer)
             /\ call.log = <<>>
             /\ call.at = call.before.at
        ELSE \E c \in Convert(CE, call.source, call.before.elem, 0, {}) :
                /\ call.log = c.log
                /\ c.out.kind = "ok" => call.out = Ok(Nil) /\ call.at = c.out.res
                /\ c.out.kind # "ok" => call.out = c.out /\ call.at = call.before.at

\* A failed Set left the old value where it was.
C5_Witness ==
    /\ call.op = "Set" /\ call.before.ptr /\ call.before.elem = "int"
    /\ call.out = Err("strconv.ErrSyntax")
    /\ call.at = IntV(9)

\* C7: when a custom strategy returns a value with no error, nothing more
\* is consulted for the source, and Convert ends as Convert(value,
\* targetType) ends.
C7_Redispatch ==
    Converted /\ Differs =>
        \A i \in DOMAIN Top :
            Top[i].strat # "builtin" /\ Answer(Top[i].r) = "value" =>
                /\ i = Len(Top)
                /\ \E o \in Convert(CE, Top[i].r.res, call.target, 0, {}) : o.out = call.out

\* A converter's int became the IntAlias asked for.
C7_Witness ==
    /\ Converted /\ call.source = Val("FloatAlias", 27) /\ call.target = "IntAlias"
    /\ Len(Top) = 1 /\ Top[1].r = Ok(IntV(7))
    /\ call.out = Ok(Val("IntAlias", 7))

\* How Convert may end on a value and a type, in the engine of the call.
Ends(v, t) == {o.out : o \in Convert(CE, v, t, 0, {})}
Fails(v, t) == \A o \in Ends(v, t) : o.kind # "ok"

\* Every custom strategy the call consulted for its source declined.
AllDeclined == \A i \in DOMAIN TopCustom : Answer(TopCustom[i].r) = "decline"

SliceCase ==
    /\ Converted /\ Differs /\ AllDeclined
    /\ call.source # Nil /\ Kind(TypeOf(call.source)) = "Slice" /\ Kind(call.target) = "Slice"

\* C8: a slice converted to another slice type, no custom strategy having
\* answered for it: on success the result is a slice of the target type, as
\* long as the source, whose i-th element is Convert(source[i], element
\* type); it fails when the conversion of an element fails, ending as the
\* first failing element's conversion ends, with no slice returned.
C8_Slice ==
    SliceCase =>
        LET S == call.source.val
            E == Elem(call.target)
        IN  /\ call.out.kind = "ok" =>
                /\ TypeOf(call.out.res) = call.target
                /\ Len(call.out.res.val) = Len(S)
                /\ \A i \in DOMAIN S : Ok(call.out.res.val[i]) \in Ends(S[i], E)
            /\ call.out.kind # "ok" =>
                /\ call.out.res = Nil
                /\ \E i \in DOMAIN S :
                        /\ call.out \in Ends(S[i], E)
                        /\ \A j \in 1..(i - 1) : ~Fails(S[j], E)
            /\ (\E i \in DOMAIN S : Fails(S[i], E)) => call.out.kind # "ok"

\* A slice of an int and a string became a slice of two ints, the target
\* converter of int having declined for the string.
C8_Witness ==
    /\ Converted /\ call.target = "[]int"
    /\ call.source = Val("[]interface {}", <<IntV(1), StrV(<<"2">>)>>)
    /\ call.out = Ok(Val("[]int", <<IntV(1), IntV(2)>>))
    /\ Lookup(CE.targetConverters, "int") = <<"decline">>

\* The second element of a slice does not convert.
C8_WitnessFailure ==
    /\ SliceCase /\ call.target = "[]int"
    /\ call.source = Val("[]interface {}", <<StrV(<<"2">>), StrV(<<"x">>)>>)
    /\ call.out = Err("strconv.ErrSyntax")

MapCase ==
    /\ Converted /\ Differs /\ AllDeclined
    /\ call.source # Nil /\ Kind(TypeOf(call.source)) = "Map" /\ Kind(call.target) = "Map"

\* C9: a map converted to another map type, no custom strategy having
\* answered for it: on success the result is a map of the target type that
\* holds the converted key of every source entry and no other key, each
\* mapped to the converted value of a source entry with that converted key;
\* it fails when the conversion of a key or of a value fails, ending as
\* one of those conversions ends.
C9_Map ==
    MapCase =>
        LET S == call.source.val
            K == Key(call.target)
            E == Elem(call.target)
        IN  /\ call.out.kind = "ok" =>
                LET T == call.out.res.val
                IN  /\ TypeOf(call.out.res) = call.target
                    /\ \A k \in DOMAIN S : \E t \in DOMAIN T : Ok(t) \in Ends(k, K)
                    /\ \A t \in DOMAIN T :
                            \E k \in DOMAIN S : Ok(t) \in Ends(k, K) /\ Ok(T[t]) \in Ends(S[k], E)
            /\ call.out.kind # "ok" =>
                /\ call.out.res = Nil
                /\ \E k \in DOMAIN S : call.out \in Ends(k, K) \cup Ends(S[k], E)
            /\ (\E k \in DOMAIN S : Fails(k, K) \/ Fails(S[k], E)) => call.out.kind # "ok"

\* Two keys, "1" and "01", became the one key 1, which holds the value of
\* one of them.
C9_Witness ==
    /\ MapCase /\ call.target = "map[int]string"
    /\ call.source = Val("map[string]interface {}",
                         (StrV(<<"1">>) :> StrV(<<"2">>)) @@ (StrV(<<"0", "1">>) :> StrV(<<"x">>)))
    /\ call.out = Ok(Val("map[int]string", (IntV(1) :> StrV(<<"x">>))))

\* The zero value of a type
Zero(t) ==
    CASE Kind(t) \in IntKinds \cup UintKinds \cup FloatKinds -> Val(t, 0)
      [] Kind(t) = "String" -> Val(t, <<>>)
      [] Kind(t) = "Bool" -> Val(t, FALSE)
      [] OTHER -> Nil

\* C10: a map with an entry whose value is nil, converted by an engine
\* with no converters to a map type of element type T, its other entries
\* being convertible: Convert succeeds, and the result maps the entry's
\* converted key to the zero value of T unless another entry has the same
\* converted key.
C10_NilEntryBecomesZero ==
    (/\ Converted /\ Differs
     /\ TypeOf(call.source) = "map[string]interface {}" /\ Kind(call.target) = "Map"
     /\ Registry(CE) = Registry(New)
     /\ \E k \in DOMAIN call.source.val : call.source.val[k] = Nil
     /\ \A k \in DOMAIN call.source.val :
            /\ ~Fails(k, Key(call.target))
            /\ call.source.val[k] # Nil => ~Fails(call.source.val[k], Elem(call.target)))
    => /\ call.out.kind = "ok"
       /\ \A k \in DOMAIN call.source.val :
            call.source.val[k] = Nil =>
                \E t \in DOMAIN call.out.res.val :
                    /\ Ok(t) \in Ends(k, Key(call.target))
                    /\ \/ call.out.res.val[t] = Zero(Elem(call.target))
                       \/ \E j \in DOMAIN call.source.val \ {k} : Ok(t) \in Ends(j, Key(call.target))

\* The three registries of an engine, by name.
RegistryNames == {"sourceConverters", "targetConverters", "interfaceConverters"}

\* Engine e's registry n differs from before by fn at the end of the list
\* under key, and by nothing else.
Appended(e, n, key, fn) ==
    /\ DOMAIN engines'[e][n] = DOMAIN engines[e][n] \cup {key}
    /\ engines'[e][n][key] =
            (IF key \in DOMAIN engines[e][n] THEN engines[e][n][key] ELSE <<>>) \o <<fn>>
    /\ \A k \in DOMAIN engines[e][n] \ {key} : engines'[e][n][k] = engines[e][n][k]

\* C11: in every step, either no registry of any engine changes, or a new
\* engine with empty registries joins the unchanged others, or exactly one
\* list of one registry of one engine gets one converter at its end and
\* every other list, registry and engine is unchanged; a step that makes a
\* Convert or Set call changes no registry; no step removes or reorders.
C11_RegistriesFrame ==
    [][/\ \/ engines' = engines
          \/ engines' = Append(engines, New)
          \/ /\ Len(engines') = Len(engines)
             /\ \E e \in DOMAIN engines, n \in RegistryNames :
                  /\ \E key \in Types, fn \in ConverterFuncs : Appended(e, n, key, fn)
                  /\ \A m \in RegistryNames \ {n} : engines'[e][m] = engines[e][m]
                  /\ \A d \in DOMAIN engines \ {e} : engines'[d] = engines[d]
       /\ call'.op \in {"Convert", "Set"} /\ call' # call => engines' = engines
       /\ \A e \in DOMAIN engines, n \in RegistryNames :
            \A k \in DOMAIN engines[e][n] :
                /\ e \in DOMAIN engines' /\ k \in DOMAIN engines'[e][n]
                /\ IsPrefix(engines[e][n][k], engines'[e][n][k])
      ]_vars

\* An engine made by New holds two different converters under one key, in
\* the order of their registration, Default holds none, and the engine
\* has just converted with them.
C11_Witness ==
    /\ Len(engines) = 2
    /\ Registry(engines[1]) = Registry(New)
    /\ engines[2].sourceConverters = ("FloatAlias" :> <<"decline", "roundFloat">>)
    /\ Converted /\ call.ce = 2
    /\ call.source = Val("FloatAlias", 27) /\ call.out = Ok(IntV(3))

\* s is the base-10 numeral of the integer n: a minus sign when n is
\* negative, then the digits of its magnitude, with no leading zero.
Decimal(s, n) ==
    LET body == IF n < 0 THEN Tail(s) ELSE s
    IN  /\ n < 0 => Len(s) > 0 /\ s[1] = "-"
        /\ AllDigits(body)
        /\ Len(body) > 1 => body[1] # "0"
        /\ ParseNat(body) = (IF n < 0 THEN -n ELSE n)

\* s is the numeral of the float of f tenths: its integer part, then a
\* point and the tenths digit unless that digit is zero.
DecimalTenths(s, f) ==
    LET body == IF f < 0 THEN Tail(s) ELSE s
        a == IF f < 0 THEN -f ELSE f
    IN  /\ f < 0 => Len(s) > 0 /\ s[1] = "-"
        /\ IF a % 10 = 0 THEN Decimal(body, a \div 10)
           ELSE /\ Len(body) >= 3 /\ body[Len(body) - 1] = "."
                /\ Decimal(SubSeq(body, 1, Len(body) - 2), a \div 10)
                /\ body[Len(body)] \in DigitChars /\ DigitOf(body[Len(body)]) = a % 10

\* s renders the boolean or number v.
Renders(s, v) ==
    LET k == Kind(TypeOf(v))
    IN  CASE k = "Bool" -> s = (IF v.val THEN <<"t", "r", "u", "e">> ELSE <<"f", "a", "l", "s", "e">>)
          [] k \in IntKinds \cup UintKinds -> Decimal(s, v.val)
          [] k \in FloatKinds -> DecimalTenths(s, v.val)

\* A boolean or a number was converted to string, and whatever custom
\* strategy the engine consulted for it declined.
RoundTripCase ==
    /\ Converted /\ call.target = "string" /\ AllDeclined
    /\ call.source # Nil
    /\ Kind(TypeOf(call.source)) \in {"Bool"} \cup IntKinds \cup UintKinds \cup FloatKinds

\* C12: a boolean, a signed or unsigned integer or a float converted to
\* string, no custom strategy answering: Convert succeeds with a string
\* that is "true"/"false" or the base-10 numeral of the value, and Convert
\* of that string to the value's type, again with no custom strategy
\* answering, succeeds and returns exactly the value.
C12_StringRoundTrip ==
    RoundTripCase =>
        /\ call.out.kind = "ok"
        /\ TypeOf(call.out.res) = "string" /\ Renders(call.out.res.val, call.source)
        /\ \A back \in Convert(CE, call.out.res, TypeOf(call.source), 0, {}) :
                (\A i \in DOMAIN back.log :
                    back.log[i].strat # "builtin" => Answer(back.log[i].r) = "decline")
                => back.out = Ok(call.source)

\* The least int8 became "-128", a registered converter having declined,
\* and the string converts back to it.
C12_Witness ==
    /\ RoundTripCase /\ Len(TopCustom) > 0
    /\ call.source = Val("int8", -128)
    /\ call.out = Ok(StrV(<<"-", "1", "2", "8">>))
    /\ \E back \in Convert(CE, call.out.res, "int8", 0, {}) : back.out = Ok(call.source)

\* The nesting depth of the slices and maps of a value.
RECURSIVE Nesting(_)
Nesting(v) ==
    LET most(S) == IF S = {} THEN 0 ELSE CHOOSE n \in S : \A m \in S : m <= n
    IN  IF v = Nil \/ Kind(TypeOf(v)) \notin {"Slice", "Map"} THEN 0
        ELSE IF Kind(TypeOf(v)) = "Slice"
        THEN 1 + most({Nesting(v.val[i]) : i \in DOMAIN v.val})
        ELSE 1 + most({Nesting(v.val[k]) : k \in DOMAIN v.val} \cup {Nesting(k) : k \in DOMAIN v.val})

\* The custom strategies, of any depth, that returned a value in the call.
ReturnedValue(l) == l.strat # "builtin" /\ Answer(l.r) = "value"
NeverReturns == call.out.kind = "overflow"

\* C13 as stated: when a custom strategy consulted for the source returns,
\* for a target of another type, a value of the source's type again,
\* Convert never returns; and when no custom strategy returns a value,
\* Convert ends, at a recursion depth within the nesting of the source.
C13_SameTypeNeverReturns ==
    Converted /\ Differs =>
        /\ (\E i \in DOMAIN TopCustom :
                /\ ReturnedValue(TopCustom[i])
                /\ TypeOf(TopCustom[i].r.res) = TypeOf(call.source))
           => NeverReturns
        /\ (\A i \in DOMAIN call.log : ~ReturnedValue(call.log[i]))
           => /\ ~NeverReturns
              /\ \A i \in DOMAIN call.log : call.log[i].depth <= Nesting(call.source)

\* C13, amended: Convert never returns when a custom strategy consulted
\* for the source returns, for a target of another type, the source value
\* itself, and that strategy is reached in a fixed order (it is not an
\* interface converter, or the interface converters are under one key);
\* a call that never returns has always just converted again a value a
\* custom strategy returned; and when no custom strategy returns a value,
\* Convert ends, at a recursion depth within the nesting of the source.
C13_CycleNeverReturns ==
    Converted /\ Differs =>
        /\ (\E i \in DOMAIN TopCustom :
                /\ ReturnedValue(TopCustom[i])
                /\ TopCustom[i].r.res = call.source
                /\ \/ TopCustom[i].strat # "interface"
                   \/ Cardinality(DOMAIN CE.interfaceConverters) <= 1)
           => NeverReturns
        /\ NeverReturns => Len(call.log) > 0 /\ ReturnedValue(call.log[Len(call.log)])
        /\ (\A i \in DOMAIN call.log : ~ReturnedValue(call.log[i]))
           => /\ ~NeverReturns
              /\ \A i \in DOMAIN call.log : call.log[i].depth <= Nesting(call.source)

\* A source converter returned its source for another target: the call
\* never returned.
C13_Witness ==
    /\ Converted /\ NeverReturns
    /\ call.source = Val("FloatAlias", 27) /\ call.target = "string"
    /\ Len(TopCustom) = 1 /\ TopCustom[1].strat = "source" /\ TopCustom[1].f = "retSource"

\* The returned values went from FloatAlias to int and back to the source.
C13_WitnessCycle ==
    /\ Converted /\ NeverReturns
    /\ call.source = Val("FloatAlias", 27) /\ call.target = "string"
    /\ Len(call.log) = 2
    /\ call.log[1].r = Ok(IntV(7)) /\ call.log[2].r = Ok(Val("FloatAlias", 27))

\* A converter returned values of the source's type, and Convert returned.
C13_WitnessReturns ==
    /\ Converted /\ call.out = Ok(StrV(<<"0">>))
    /\ call.source = Val("FloatAlias", 27)
    /\ Len(TopCustom) = 1 /\ TopCustom[1].f = "halve"

\* An interface converter returned the source itself, and on the next
\* pass another one was reached first: Convert returned.
C13_WitnessOrder ==
    /\ Converted /\ call.out.kind = "ok"
    /\ \E i \in DOMAIN TopCustom :
            /\ TopCustom[i].strat = "interface" /\ TopCustom[i].f = "retSource"
            /\ TopCustom[i].r.res = call.source

\* No converter returned a value, and the elements of a slice were
\* converted one level down.
C13_WitnessDepth ==
    /\ Converted /\ call.out.kind = "ok" /\ Nesting(call.source) = 1
    /\ \A i \in DOMAIN call.log : ~ReturnedValue(call.log[i])
    /\ \E i \in DOMAIN call.log : call.log[i].depth = 1
====
